---- MODULE Spec2Model ----
(***************************************************************************)
(* Model of the fixedincome package: the day-count engine                  *)
(* (utils.day_count_factor), the coupon schedule (bonds.coupon_dates), the *)
(* bond pricer (bonds.price) and the yield solver (bonds.yield_).          *)
(*                                                                         *)
(* Dates are triples <<year, month, day>>.  Numbers the code computes as   *)
(* floats are exact rationals <<numerator, denominator>> here; a value     *)
(* that needs a real power with a fractional exponent is kept symbolic.    *)
(***************************************************************************)
EXTENDS Integers, Sequences, FiniteSets

VARIABLES
    op,             \* the function being called
    settlement,     \* coupon_dates / price / yield_ argument
    maturity,       \* coupon_dates / price / yield_ argument
    frequency,      \* coupon_dates / price / yield_ argument
    basis,          \* day-count basis code
    rate,           \* annual coupon rate  <<num, den>>
    yld,            \* annual yield        <<num, den>>  (price)
    redemption,     \* redemption value per 100 face (integer)
    start,          \* day_count_factor argument
    end,            \* day_count_factor argument
    next_,          \* day_count_factor argument: None or Some(date)
    freq,           \* day_count_factor argument: None or Some(integer)
    couponDates,    \* the local list _coupon_dates
    couponPeriod,   \* months of the relativedelta coupon_period
    itr,            \* iterations the root-finder has performed
    path,           \* the branch yield_ took
    pc,             \* position in the call
    result          \* what the call returned or raised

vars == <<op, settlement, maturity, frequency, basis, rate, yld, redemption,
          start, end, next_, freq, couponDates, couponPeriod, itr, path, pc,
          result>>

-----------------------------------------------------------------------------
(* Bounds of the model *)

\* the while loop of coupon_dates is followed until the list holds this many
\* dates (every schedule of the inputs below is shorter)
MaxDates == 30

\* price is called on bonds with at most this many coupon periods left
MaxPeriods == 4

-----------------------------------------------------------------------------
(* Program constants *)

MONTHS_IN_YEAR == 12

_PAR == 100

\* maxiter of the scipy.optimize.newton call in yield_
maxiter == 100

\* an optional argument is None or holds one value
None == <<>>
Some(x) == <<x>>

-----------------------------------------------------------------------------
(* datetime.date *)

Year(d)  == d[1]
Month(d) == d[2]
Day(d)   == d[3]

IsLeap(y) == (y % 4 = 0) /\ ((y % 100 # 0) \/ (y % 400 = 0))

DaysInMonth(y, m) ==
    IF m = 2 THEN (IF IsLeap(y) THEN 29 ELSE 28)
    ELSE IF m \in {4, 6, 9, 11} THEN 30 ELSE 31

IsDate(d) == /\ Month(d) \in 1..12
             /\ Day(d) \in 1..DaysInMonth(Year(d), Month(d))

\* days of the months of year y before month m
RECURSIVE DaysBeforeMonth(_, _)
DaysBeforeMonth(y, m) ==
    IF m = 1 THEN 0 ELSE DaysBeforeMonth(y, m - 1) + DaysInMonth(y, m - 1)

\* date.toordinal(): days since 0001-01-01, plus one
ToOrdinal(d) ==
    LET y == Year(d) - 1
    IN  365 * y + (y \div 4) - (y \div 100) + (y \div 400)
        + DaysBeforeMonth(Year(d), Month(d)) + Day(d)

\* (b - a).days
DaysBetween(a, b) == ToOrdinal(b) - ToOrdinal(a)

\* a > b on dates
DateGT(a, b) ==
    \/ Year(a) > Year(b)
    \/ Year(a) = Year(b) /\ Month(a) > Month(b)
    \/ Year(a) = Year(b) /\ Month(a) = Month(b) /\ Day(a) > Day(b)

DateLE(a, b) == ~DateGT(a, b)

Min(a, b) == IF a <= b THEN a ELSE b

\* Python's a // b (floor division), b # 0
FloorDiv(a, b) == IF b > 0 THEN a \div b ELSE (0 - a) \div (0 - b)

\* date + dateutil.relativedelta(months=n): the month moves by n, the year
\* carries, and the day is cut to the last day of the month reached
AddMonths(d, n) ==
    LET total == Year(d) * 12 + (Month(d) - 1) + n
        y     == total \div 12
        m     == (total % 12) + 1
    IN  <<y, m, Min(Day(d), DaysInMonth(y, m))>>

\* seq[::-1]
RECURSIVE Reverse(_)
Reverse(s) == IF s = <<>> THEN <<>> ELSE Append(Reverse(Tail(s)), Head(s))

Last(s) == s[Len(s)]

-----------------------------------------------------------------------------
(* What a call ends with *)

NoResult == [kind |-> "none", value |-> 0]
Raised(e) == [kind |-> e, value |-> 0]
Returned(v) == [kind |-> "value", value |-> v]

-----------------------------------------------------------------------------
(* bonds.coupon_dates *)

\* the same division rounding toward zero: 0 months for a frequency above 12
CouponPeriodMonthsTruncated(f) ==
    IF f > 0 THEN 0 - (MONTHS_IN_YEAR \div f) ELSE (MONTHS_IN_YEAR \div (0 - f))

\* months=-MONTHS_IN_YEAR//frequency: the minus binds before the floor division
CouponPeriodMonths(f) == FloorDiv(0 - MONTHS_IN_YEAR, f)

\* the loop condition with >= in place of >
LoopCondInclusive(last, s) == ~DateGT(s, last)

\* while _coupon_dates[-1] > settlement
LoopCond(last, s) == DateGT(last, s)

\* _coupon_dates = [maturity]; coupon_period = relativedelta(months=-12//frequency)
CouponStart ==
    /\ pc = "coupon_dates"
    /\ IF frequency = 0
       THEN /\ result' = Raised("ZeroDivisionError")
            /\ pc' = "done"
            /\ UNCHANGED <<couponDates, couponPeriod>>
       ELSE /\ couponDates' = <<maturity>>
            /\ couponPeriod' = CouponPeriodMonths(frequency)
            /\ pc' = "loop"
            /\ UNCHANGED result
    /\ UNCHANGED <<op, settlement, maturity, frequency, basis, rate, yld,
                   redemption, start, end, next_, freq, itr, path>>

\* one pass of the while loop: append the last date moved by coupon_period
CouponLoopStep ==
    /\ pc = "loop"
    /\ LoopCond(Last(couponDates), settlement)
    /\ Len(couponDates) < MaxDates
    /\ couponDates' = Append(couponDates, AddMonths(Last(couponDates), couponPeriod))
    /\ UNCHANGED <<op, settlement, maturity, frequency, basis, rate, yld,
                   redemption, start, end, next_, freq, couponPeriod, itr, path,
                   pc, result>>

\* the loop ends; the list is reversed and returned to the caller
CouponLoopExit ==
    /\ pc = "loop"
    /\ ~LoopCond(Last(couponDates), settlement)
    /\ couponDates' = Reverse(couponDates)
    /\ IF op = "coupon_dates"
       THEN /\ pc' = "done"
            /\ result' = Returned(Reverse(couponDates))
       ELSE /\ pc' = op
            /\ UNCHANGED result
    /\ UNCHANGED <<op, settlement, maturity, frequency, basis, rate, yld,
                   redemption, start, end, next_, freq, couponPeriod, itr, path>>

-----------------------------------------------------------------------------
(* Exact rationals <<n, d>>, d > 0, in lowest terms *)

Abs(x) == IF x < 0 THEN 0 - x ELSE x

RECURSIVE Gcd(_, _)
Gcd(a, b) == IF b = 0 THEN a ELSE Gcd(b, a % b)

\* n / d for d # 0
Rat(n, d) ==
    LET g == Gcd(Abs(n), Abs(d))
    IN  IF d > 0 THEN <<n \div g, d \div g>>
        ELSE <<(0 - n) \div g, (0 - d) \div g>>

RatInt(k) == <<k, 1>>

RatAdd(a, b) ==
    LET g == Gcd(a[2], b[2])
        l == (a[2] \div g) * b[2]
    IN  Rat(a[1] * (l \div a[2]) + b[1] * (l \div b[2]), l)

RatNeg(a) == <<0 - a[1], a[2]>>

RatSub(a, b) == RatAdd(a, RatNeg(b))

RatMul(a, b) ==
    LET g1 == Gcd(Abs(a[1]), b[2])
        g2 == Gcd(Abs(b[1]), a[2])
    IN  Rat((a[1] \div g1) * (b[1] \div g2), (a[2] \div g2) * (b[2] \div g1))

\* 1 / a for a # 0
RatInv(a) == Rat(a[2], a[1])

RatLT(a, b) == a[1] * b[2] < b[1] * a[2]

RatLE(a, b) == a[1] * b[2] <= b[1] * a[2]

\* a ** k for an integer k (a # 0 when k < 0)
RECURSIVE RatPow(_, _)
RatPow(a, k) ==
    IF k = 0 THEN RatInt(1)
    ELSE IF k < 0 THEN RatPow(RatInv(a), 0 - k)
    ELSE RatMul(a, RatPow(a, k - 1))

-----------------------------------------------------------------------------
(* utils.day_count_factor *)

\* the exception kinds the code raises to reject an argument: the assert
\* statements and the ValueError of day_count_factor
InvalidArgument == {"AssertionError", "ValueError"}

\* date.replace(day=k)
ReplaceDay(d, k) == <<Year(d), Month(d), k>>

\* _thirty_threesixty_day_count_factor
ThirtyThreeSixty(s, e) ==
    Rat(360 * (Year(e) - Year(s)) + 30 * (Month(e) - Month(s)) + (Day(e) - Day(s)),
        360)

\* the start date left as it is
NasdStartUnadjusted(s) == s

\* if start.day == 31: start = start.replace(day=30)
NasdStart(s) == IF Day(s) = 31 THEN ReplaceDay(s, 30) ELSE s

\* if end.day == 31 and (start.day == 30 or start.day == 31): end = end.replace(day=30)
NasdEnd(s, e) ==
    IF Day(e) = 31 /\ (Day(s) = 30 \/ Day(s) = 31) THEN ReplaceDay(e, 30) ELSE e

\* if d.day == 31: d = d.replace(day=30)
EuropeanDay(d) == IF Day(d) = 31 THEN ReplaceDay(d, 30) ELSE d

\* a day count that includes both end days
ActualDaysInclusive(s, e) == DaysBetween(s, e) + 1

\* (end - start).days
ActualDays(s, e) == DaysBetween(s, e)

\* basis 1: assert next_; assert freq and (freq > 0);
\* (end - start).days / (freq * (next_ - start).days)
ActualActual(s, e, nx, fq) ==
    IF nx = None THEN Raised("AssertionError")
    ELSE IF fq = None THEN Raised("AssertionError")
    ELSE IF ~(fq[1] > 0) THEN Raised("AssertionError")
    ELSE IF fq[1] * DaysBetween(s, nx[1]) = 0 THEN Raised("ZeroDivisionError")
    ELSE Returned(Rat(ActualDays(s, e), fq[1] * DaysBetween(s, nx[1])))

DayCountFactor(s, e, b, nx, fq) ==
    IF b = 0 THEN Returned(ThirtyThreeSixty(NasdStart(s), NasdEnd(s, e)))
    ELSE IF b = 1 THEN ActualActual(s, e, nx, fq)
    ELSE IF b = 2 THEN Returned(Rat(ActualDays(s, e), 360))
    ELSE IF b = 3 THEN Returned(Rat(ActualDays(s, e), 365))
    ELSE IF b = 4 THEN Returned(ThirtyThreeSixty(EuropeanDay(s), EuropeanDay(e)))
    ELSE Raised("ValueError")

\* a direct call of day_count_factor
DayCountCall ==
    /\ pc = "day_count_factor"
    /\ result' = DayCountFactor(start, end, basis, next_, freq)
    /\ pc' = "done"
    /\ UNCHANGED <<op, settlement, maturity, frequency, basis, rate, yld,
                   redemption, start, end, next_, freq, couponDates,
                   couponPeriod, itr, path>>

-----------------------------------------------------------------------------
(* bonds.accrint *)

\* par * rate * day_count_factor(issue, settlement, basis, first_interest, frequency)
Accrint(issue, firstInterest, s, r, par, f, b) ==
    RatMul(RatMul(RatInt(par), r),
           DayCountFactor(issue, s, b, Some(firstInterest), Some(f)).value)

-----------------------------------------------------------------------------
(* bonds.price *)

\* the day_count_factor call of line 134
PriceDayCount(dates, s, f, b) ==
    DayCountFactor(dates[1], s, b, Some(dates[2]), Some(f))

\* the exception price raises, "none" when it returns:
\* cash_flows[-1] on an empty array, then the day_count_factor call
PriceError(dates, s, f, b) ==
    IF Len(dates) - 1 < 1 THEN "IndexError"
    ELSE IF PriceDayCount(dates, s, f, b).kind # "value"
         THEN PriceDayCount(dates, s, f, b).kind
    ELSE "none"

\* time_to_next = 1 - frequency * day_count_factor(...)
TimeToNext(dates, s, f, b) ==
    RatSub(RatInt(1), RatMul(RatInt(f), PriceDayCount(dates, s, f, b).value))

\* the cash flows with the annual coupon paid every period
CashFlowAnnual(i, numPeriods, r, red, f) ==
    LET coupon == RatMul(RatInt(_PAR), r)
    IN  IF i = numPeriods - 1 THEN RatAdd(coupon, RatInt(red)) ELSE coupon

\* cash_flows[i], i = 0 .. num_periods - 1
CashFlow(i, numPeriods, r, red, f) ==
    LET coupon == RatMul(RatInt(_PAR), RatMul(r, Rat(1, f)))
    IN  IF i = numPeriods - 1 THEN RatAdd(coupon, RatInt(red)) ELSE coupon

\* 1 + yld / frequency
DiscountRate(y, f) == RatAdd(RatInt(1), RatMul(y, Rat(1, f)))

\* np.dot(cash_flows, discount_factors) over the flows i .. num_periods - 1,
\* for a whole-number time_to_next t
RECURSIVE DirtyFrom(_, _, _, _, _, _, _)
DirtyFrom(i, numPeriods, t, r, y, red, f) ==
    IF i >= numPeriods THEN RatInt(0)
    ELSE RatAdd(RatMul(CashFlow(i, numPeriods, r, red, f),
                       RatPow(DiscountRate(y, f), 0 - (i + t))),
                DirtyFrom(i + 1, numPeriods, t, r, y, red, f))

\* what price returns when it raises nothing.  cleanKind is "exact" when every
\* discount exponent is a whole number, "nonfinite" when a zero discount rate
\* is raised to a negative power (numpy gives inf / nan), and "real" otherwise
\* (a fractional power: the clean price is not a rational and is left open).
PriceValue(dates, s, r, y, red, f, b) ==
    LET numPeriods == Len(dates) - 1
        ttn        == TimeToNext(dates, s, f, b)
        acc        == Accrint(dates[1], dates[2], s, r, _PAR, f, b)
        q          == DiscountRate(y, f)
        kind       == IF ttn[2] # 1 THEN "real"
                      ELSE IF q[1] = 0 /\ (numPeriods - 1) + ttn[1] > 0
                           THEN "nonfinite"
                      ELSE "exact"
    IN  [numPeriods |-> numPeriods,
         timeToNext |-> ttn,
         accrint    |-> acc,
         cleanKind  |-> kind,
         clean      |-> IF kind = "exact"
                        THEN RatSub(DirtyFrom(0, numPeriods, ttn[1], r, y, red, f), acc)
                        ELSE RatInt(0)]

Price(dates, s, r, y, red, f, b) ==
    IF PriceError(dates, s, f, b) # "none"
    THEN Raised(PriceError(dates, s, f, b))
    ELSE Returned(PriceValue(dates, s, r, y, red, f, b))

\* lines 126-145 of price, after its coupon_dates call
PriceCall ==
    /\ pc = "price"
    /\ result' = Price(couponDates, settlement, rate, yld, redemption, frequency, basis)
    /\ pc' = "done"
    /\ UNCHANGED <<op, settlement, maturity, frequency, basis, rate, yld,
                   redemption, start, end, next_, freq, couponDates,
                   couponPeriod, itr, path>>

-----------------------------------------------------------------------------
(* bonds.yield_ *)

\* if len(_coupon_dates) == 1: the closed form, whose first statement reads
\* the names issue and first_interest, which yield_ does not define;
\* else: scipy.optimize.newton, which first evaluates price at x0
YieldBranch ==
    /\ pc = "yield_"
    /\ IF Len(couponDates) = 1
       THEN /\ path' = "closed_form"
            /\ result' = Raised("NameError")
            /\ pc' = "done"
       ELSE /\ path' = "newton"
            /\ IF PriceError(couponDates, settlement, frequency, basis) # "none"
               THEN /\ result' = Raised(PriceError(couponDates, settlement, frequency, basis))
                    /\ pc' = "done"
               ELSE /\ pc' = "newton"
                    /\ UNCHANGED result
    /\ itr' = 0
    /\ UNCHANGED <<op, settlement, maturity, frequency, basis, rate, yld,
                   redemption, start, end, next_, freq, couponDates, couponPeriod>>

\* for itr in range(maxiter)
NewtonMayIterate(i) == i < maxiter

\* one iteration of the root-finder: it either meets the tolerance and
\* returns the iterate, or moves to the next iterate
NewtonIter ==
    /\ pc = "newton"
    /\ NewtonMayIterate(itr)
    /\ itr' = itr + 1
    /\ \E converged \in BOOLEAN :
          IF converged
          THEN /\ result' = Returned("yield")
               /\ pc' = "done"
          ELSE UNCHANGED <<result, pc>>
    /\ UNCHANGED <<op, settlement, maturity, frequency, basis, rate, yld,
                   redemption, start, end, next_, freq, couponDates,
                   couponPeriod, path>>

\* the iterations are used up: RuntimeError("Failed to converge ...")
NewtonFail ==
    /\ pc = "newton"
    /\ ~NewtonMayIterate(itr)
    /\ result' = Raised("RuntimeError")
    /\ pc' = "done"
    /\ UNCHANGED <<op, settlement, maturity, frequency, basis, rate, yld,
                   redemption, start, end, next_, freq, couponDates,
                   couponPeriod, itr, path>>

-----------------------------------------------------------------------------
(* Inputs *)

NoDate == <<0, 0, 0>>
Zero == <<0, 1>>

DatesOf(years, months, days) ==
    {d \in years \X months \X days : IsDate(d)}

Bases == {0, 1, 2, 3, 4}

\* the payment frequencies whose period is a whole number of months
Divisors == {f \in 1..MONTHS_IN_YEAR : MONTHS_IN_YEAR % f = 0}

Idle ==
    /\ couponDates = <<>>
    /\ couponPeriod = 0
    /\ itr = 0
    /\ path = "none"
    /\ result = NoResult

NoDayCountArgs ==
    /\ start = NoDate
    /\ end = NoDate
    /\ next_ = None
    /\ freq = None

NoBondArgs ==
    /\ settlement = NoDate
    /\ maturity = NoDate
    /\ frequency = 0
    /\ rate = Zero
    /\ yld = Zero
    /\ redemption = 0

(* coupon_dates(settlement, maturity, frequency) *)

\* frequencies 5 and 13 do not divide 12; 0, -1 and -5 are not positive
CouponSettlements == DatesOf({2020}, {1, 2, 3, 8, 12}, {1, 15, 28, 29, 31})
CouponMaturities  == DatesOf({2020, 2021}, {1, 2, 4, 6, 8, 12}, {1, 15, 28, 29, 30, 31})
CouponFrequencies == Divisors \cup {5, 13, 0, -1, -5}

InitCoupon ==
    /\ op = "coupon_dates"
    /\ pc = "coupon_dates"
    /\ settlement \in CouponSettlements
    /\ maturity \in CouponMaturities
    /\ frequency \in CouponFrequencies
    /\ basis = 0
    /\ rate = Zero
    /\ yld = Zero
    /\ redemption = 0
    /\ NoDayCountArgs
    /\ Idle

NextCoupon == CouponStart \/ CouponLoopStep \/ CouponLoopExit

SpecCoupon == InitCoupon /\ [][NextCoupon]_vars

(* day_count_factor(start, end, basis, next_, freq) *)

\* basis 5 is no basis code; the next coupon dates are dates of DayCountDates
DayCountDates == DatesOf({2019, 2020}, {1, 2, 7, 8, 12}, {1, 28, 29, 30, 31})
DayCountNexts == {None, Some(<<2020, 1, 31>>), Some(<<2020, 7, 1>>), Some(<<2020, 8, 30>>)}
DayCountFreqs == {None, Some(0), Some(1), Some(2)}

InitDayCount ==
    /\ op = "day_count_factor"
    /\ pc = "day_count_factor"
    /\ start \in DayCountDates
    /\ end \in DayCountDates
    /\ basis \in Bases \cup {5}
    /\ next_ \in DayCountNexts
    /\ freq \in DayCountFreqs
    /\ NoBondArgs
    /\ Idle

NextDayCount == DayCountCall

SpecDayCount == InitDayCount /\ [][NextDayCount]_vars

(* price(settlement, maturity, rate, yld, redemption, frequency, basis) *)

\* the rates keep 1 + rate/frequency a ratio of small numbers, so that the
\* exact price stays within the integers; rate = -1 with frequency = 1 makes
\* the discount rate 0
PriceSettlements == DatesOf({2020}, {2, 8, 11}, {15, 28, 29, 30, 31})
PriceMaturities  == DatesOf({2020, 2021}, {2, 5, 8, 12}, {15, 28, 30, 31})
Rates == {Zero, <<3, 5>>, <<-1, 1>>}
OtherYield == <<6, 5>>

InitPrice ==
    /\ op = "price"
    /\ pc = "coupon_dates"
    /\ settlement \in PriceSettlements
    /\ maturity \in PriceMaturities
    /\ frequency \in Divisors \cup {0}
    /\ frequency > 0 =>
          DateLE(maturity,
                 AddMonths(settlement, MaxPeriods * (MONTHS_IN_YEAR \div frequency)))
    /\ basis \in Bases \cup {5}
    /\ rate \in Rates
    /\ yld \in {rate, OtherYield}
    /\ redemption \in {_PAR, 105}
    /\ NoDayCountArgs
    /\ Idle

NextPrice == CouponStart \/ CouponLoopStep \/ CouponLoopExit \/ PriceCall

SpecPrice == InitPrice /\ [][NextPrice]_vars

(* yield_(settlement, maturity, rate, price_, redemption, frequency, basis) *)

\* frequencies 5 and 13 do not divide 12; basis 7 is no basis code
YieldSettlements == DatesOf({2020}, {1, 8}, {15, 31})
YieldMaturities  == DatesOf({2020, 2021}, {1, 8}, {15, 31})

InitYield ==
    /\ op = "yield_"
    /\ pc = "coupon_dates"
    /\ settlement \in YieldSettlements
    /\ maturity \in YieldMaturities
    /\ frequency \in {1, 2, 5, 12, 13, 0, -1}
    /\ basis \in {0, 1, 2, 7}
    /\ rate = <<3, 5>>
    /\ yld = Zero
    /\ redemption = _PAR
    /\ NoDayCountArgs
    /\ Idle

NextYield ==
    \/ CouponStart
    \/ CouponLoopStep
    \/ CouponLoopExit
    \/ YieldBranch
    \/ NewtonIter
    \/ NewtonFail

SpecYield == InitYield /\ [][NextYield]_vars

\* a call runs on: no step of it waits for anything
SpecYieldFair == SpecYield /\ WF_vars(NextYield)

-----------------------------------------------------------------------------
(* Properties of coupon_dates, under SpecCoupon *)

Par == RatInt(_PAR)

\* C1: for a frequency dividing 12, coupon_dates returns a non-empty, strictly
\* ascending list ending at maturity; with settlement < maturity its first date
\* is <= settlement and every later one is > settlement; with
\* settlement = maturity it is exactly [maturity].
C1_ScheduleShape ==
    (pc = "done" /\ frequency \in Divisors) =>
        /\ result.kind = "value"
        /\ LET s == result.value
               n == Len(result.value)
           IN  /\ n >= 1
               /\ \A i \in 1..(n - 1) : DateGT(s[i + 1], s[i])
               /\ s[n] = maturity
               /\ DateGT(maturity, settlement) =>
                     /\ DateLE(s[1], settlement)
                     /\ \A i \in 2..n : DateGT(s[i], settlement)
               /\ settlement = maturity => s = <<maturity>>

\* a schedule of several periods whose anchor lies strictly before settlement
C1_Witness ==
    /\ pc = "done"
    /\ frequency \in Divisors
    /\ result.kind = "value"
    /\ Len(result.value) >= 4
    /\ DateGT(settlement, result.value[1])
    /\ Day(maturity) = 31

\* C5: coupon_dates with frequency <= 0 fails with InvalidArgument before any
\* date is generated: no stepping loop, no other error.
C5_NonPositiveFrequencyRejected ==
    (frequency <= 0 /\ pc # "coupon_dates") =>
        /\ pc = "done"
        /\ result.kind \in InvalidArgument
        /\ couponDates = <<>>

\* C6: for a frequency dividing 12 and every maturity, day 29, 30 or 31
\* included, the k-th date counted back from maturity is maturity moved back
\* k * (12 / frequency) calendar months in one step.  (The claim goes on to say
\* that each date moved forward one period is the next date; this first half
\* is enough to refute it.)
C6_KthDateBackInOneStep ==
    (pc = "done" /\ frequency \in Divisors /\ result.kind = "value") =>
        LET s == result.value
            n == Len(result.value)
            p == MONTHS_IN_YEAR \div frequency
        IN  \A k \in 0..(n - 1) : s[n - k] = AddMonths(maturity, 0 - k * p)

-----------------------------------------------------------------------------
(* Properties of day_count_factor, under SpecDayCount *)

\* whole calendar months from a to b
MonthsApart(a, b) == MONTHS_IN_YEAR * (Year(b) - Year(a)) + (Month(b) - Month(a))

\* C7: on both 30/360 bases, when start and end share the day of the month and
\* end is m whole months after start, the factor is exactly m/12.
C7_ThirtyThreeSixtyWholeMonths ==
    (/\ pc = "done"
     /\ basis \in {0, 4}
     /\ Day(start) = Day(end)
     /\ DateLE(start, end)) =>
        result = Returned(Rat(MonthsApart(start, end), MONTHS_IN_YEAR))

\* six months between two day-31 dates on the NASD basis: both adjustments act
C7_Witness ==
    /\ pc = "done"
    /\ basis = 0
    /\ Day(start) = 31
    /\ Day(end) = 31
    /\ MonthsApart(start, end) = 6
    /\ result = Returned(<<1, 2>>)

\* C8 as stated: for start = end every basis gives 0, for Actual/Actual with
\* any next coupon date and a positive frequency.
C8_ZeroOnEqualDates ==
    (/\ pc = "done"
     /\ start = end
     /\ basis \in Bases
     /\ basis = 1 => (next_ # None /\ freq # None /\ freq[1] > 0)) =>
        result = Returned(Zero)

\* C8 amended: the same, for Actual/Actual with a next coupon date other than
\* start (with next_ = start the divisor freq * (next_ - start).days is zero).
C8_ZeroOnEqualDatesNextDiffers ==
    (/\ pc = "done"
     /\ start = end
     /\ basis \in Bases
     /\ basis = 1 => (next_ # None /\ next_ # Some(start) /\ freq # None /\ freq[1] > 0)) =>
        result = Returned(Zero)

\* Actual/Actual on equal dates, with a next coupon date that is not start
C8_Witness ==
    /\ pc = "done"
    /\ start = end
    /\ basis = 1
    /\ next_ \notin {None, Some(start)}
    /\ freq = Some(2)
    /\ result = Returned(Zero)

-----------------------------------------------------------------------------
(* Properties of price, under SpecPrice *)

AtPar(r) ==
    /\ r.kind = "value"
    /\ r.value.accrint = Zero
    /\ r.value.timeToNext = RatInt(1)
    /\ r.value.cleanKind = "exact"
    /\ r.value.clean = Par

OnCouponDate ==
    /\ pc = "done"
    /\ frequency \in Divisors
    /\ basis \in Bases
    /\ couponDates # <<>>
    /\ couponDates[1] = settlement
    /\ yld = rate
    /\ redemption = _PAR

\* C2 as stated: with schedule[0] = settlement, yield = rate and
\* redemption = 100, price returns par on every basis and frequency dividing 12.
C2_ParAtCouponDate == OnCouponDate => AtPar(result)

\* C2 amended: the same when at least one coupon period remains
\* (settlement < maturity) and the discount rate 1 + yield/frequency is not 0.
C2_ParAtCouponDateBeforeMaturity ==
    (/\ OnCouponDate
     /\ DateGT(maturity, settlement)
     /\ DiscountRate(yld, frequency) # Zero) => AtPar(result)

\* three or more coupons of a 60% bond priced at par from a coupon date
C2_Witness ==
    /\ OnCouponDate
    /\ DateGT(maturity, settlement)
    /\ rate = <<3, 5>>
    /\ result.kind = "value"
    /\ result.value.numPeriods >= 3
    /\ result.value.clean = Par

\* C4: price fails with InvalidArgument whenever numPeriods < 1.
C4_NoPeriodsIsInvalidArgument ==
    (pc = "done" /\ frequency # 0 /\ Len(couponDates) - 1 < 1) =>
        result.kind \in InvalidArgument

\* C10: in price, for every basis, every frequency dividing 12 and
\* settlement < maturity, 0 < timeToNext <= 1 (every discount exponent
\* -(i + timeToNext) is negative) and the accrued interest of a bond with a
\* positive coupon is >= 0 and less than one coupon, 100 * rate / frequency.
C10_TimeToNextIsAFraction ==
    (/\ pc = "done"
     /\ frequency \in Divisors
     /\ basis \in Bases
     /\ DateGT(maturity, settlement)
     /\ RatLT(Zero, rate)) =>
        /\ result.kind = "value"
        /\ RatLT(Zero, result.value.timeToNext)
        /\ RatLE(result.value.timeToNext, RatInt(1))
        /\ RatLE(Zero, result.value.accrint)
        /\ RatLT(result.value.accrint,
                 RatMul(Par, RatMul(rate, Rat(1, frequency))))

-----------------------------------------------------------------------------
(* Properties of yield_, under SpecYield and SpecYieldFair *)

\* C3: with exactly 2 schedule dates yield_ takes the closed form and returns a
\* yield without iterating; the root-finder runs only with more than 2 dates.
C3_ClosedFormForOnePeriod ==
    (pc = "done" /\ frequency >= 1 /\ basis \in Bases) =>
        /\ Len(couponDates) = 2 =>
              (path = "closed_form" /\ result.kind = "value" /\ itr = 0)
        /\ path = "newton" => Len(couponDates) > 2

\* C9 as stated, its part on how the root-finder ends: a returned yield or a
\* convergence error, for every call with frequency >= 1.
C9_TwoOutcomes ==
    (pc = "done" /\ frequency >= 1 /\ path = "newton") =>
        result.kind \in {"value", "RuntimeError"}

\* C9 amended: every call with frequency >= 1 ends; the root-finder performs at
\* most maxiter iterations; on a supported basis it ends with a returned yield
\* or a convergence error.
C9_Terminates ==
    /\ [](itr <= maxiter)
    /\ []((pc = "done" /\ frequency >= 1 /\ path = "newton" /\ basis \in Bases) =>
             result.kind \in {"value", "RuntimeError"})
    /\ (frequency >= 1) => <>(pc = "done")

\* the root-finder used all its iterations on a schedule stepped by
\* -12 // 13 = -1 months
C9_Witness ==
    /\ pc = "done"
    /\ frequency = 13
    /\ Len(couponDates) > 12
    /\ itr = maxiter
    /\ result = Raised("RuntimeError")

====
